---------------------------- MODULE Spec2Model ----------------------------
(***************************************************************************)
(* A model of scripts/generate_leaderboard.py: the registry of benchmarks *)
(* (discover_benchmarks), the collector of result records                 *)
(* (discover_results, parse_result_file, generate_plot), the reducer and  *)
(* renderer (generate_html) and the text escaping (html_escape).          *)
(*                                                                         *)
(* Text is a sequence of one-character strings, ordered by code point.    *)
(* Python's None is the empty sequence and a present value x is <<x>>.    *)
(* A Python dict is an association list, in insertion order.              *)
(***************************************************************************)
EXTENDS Integers, Sequences, FiniteSets, TLC

VARIABLES
    pc,               \* position of the running function
    benchmarks,       \* the registry: dict name -> definition
    results,          \* the collected records, in discovery order
    results_by_test,  \* generate_html: dict test -> records
    deduped_by_test,  \* generate_html: dict test -> kept records
    todo,             \* the items the current loop has still to visit
    tables,           \* generate_html: dict test -> rendered rows
    headers,          \* generate_html: dict test -> table attributes and header
    fs,               \* the file system the run reads and writes
    text,             \* html_escape: the text being escaped
    trace,            \* what the run has done so far (calls, warnings)
    frame             \* the local variables of the function in progress

vars == <<pc, benchmarks, results, results_by_test, deduped_by_test, todo,
          tables, headers, fs, text, trace, frame>>

\* ------------------------------------------------------------------ bounds

\* The longest list of result records handed to generate_html.
MaxRecs == 3

\* ------------------------------------------------------------- basic data

None == <<>>
Some(x) == <<x>>
IsNone(o) == o = <<>>
Val(o) == o[1]

Range(s) == {s[i] : i \in 1..Len(s)}

RECURSIVE Reverse(_)
Reverse(s) == IF s = <<>> THEN <<>> ELSE Append(Reverse(Tail(s)), Head(s))

\* Sequences over S of length at most n.
SeqUpTo(S, n) == UNION {[1..k -> S] : k \in 0..n}

\* Python dicts as association lists <<[k |-> key, v |-> value], ...>>.
DictKeys(d) == [i \in 1..Len(d) |-> d[i].k]
DictHas(d, key) == \E i \in 1..Len(d) : d[i].k = key
DictGet(d, key) == (CHOOSE i \in 1..Len(d) : d[i].k = key)
DictVal(d, key) == d[DictGet(d, key)].v
DictSet(d, key, value) ==
    IF DictHas(d, key)
    THEN [i \in 1..Len(d) |-> IF d[i].k = key THEN [k |-> key, v |-> value] ELSE d[i]]
    ELSE Append(d, [k |-> key, v |-> value])

\* ------------------------------------------------------------- characters

Digits == <<"0", "1", "2", "3", "4", "5", "6", "7", "8", "9">>
IsDigit(c) == c \in Range(Digits)
DigitVal(c) == (CHOOSE i \in 1..10 : Digits[i] = c) - 1

\* The characters of the model in code point order (ASCII).
Alphabet == <<"!", "\"", "#", "&", "'", "+", "-", "/", "0", "1", "2", "3", "4", "5",
              "6", "7", "8", "9", ":", ";", "<", ">", "A", "B", "C", "D", "E", "S",
              "T", "Z", "a", "b", "c", "d", "e", "g", "l", "m", "n", "o", "p", "q",
              "s", "t", "u", "x", "z">>
Ord(c) == CHOOSE i \in 1..Len(Alphabet) : Alphabet[i] = c

\* str.lower() on one character.
LowerChar(c) ==
    CASE c = "A" -> "a"
      [] c = "B" -> "b"
      [] c = "C" -> "c"
      [] c = "D" -> "d"
      [] c = "E" -> "e"
      [] c = "S" -> "s"
      [] c = "T" -> "t"
      [] c = "Z" -> "z"
      [] OTHER -> c
Lower(s) == [i \in 1..Len(s) |-> LowerChar(s[i])]

\* Python's < on two str values: lexicographic by code point.
RECURSIVE StrLt(_, _)
StrLt(a, b) ==
    IF b = <<>> THEN FALSE
    ELSE IF a = <<>> THEN TRUE
    ELSE IF Head(a) = Head(b) THEN StrLt(Tail(a), Tail(b))
    ELSE Ord(Head(a)) < Ord(Head(b))

\* Python's < on two tuples of numbers.
RECURSIVE TupleLt(_, _)
TupleLt(a, b) ==
    IF b = <<>> THEN FALSE
    ELSE IF a = <<>> THEN TRUE
    ELSE IF Head(a) = Head(b) THEN TupleLt(Tail(a), Tail(b))
    ELSE Head(a) < Head(b)
TupleGe(a, b) == ~TupleLt(a, b)

\* ----------------------------------------------------------- JSON values

\* A Python value held by a record: None, a number, a str, or a datetime
\* (d = <<year, month, day, hour, minute, second, utc offset in seconds>>).
Null == [t |-> "null", n |-> 0, s |-> <<>>, d |-> <<>>]
Num(k) == [t |-> "num", n |-> k, s |-> <<>>, d |-> <<>>]
Str(q) == [t |-> "str", n |-> 0, s |-> q, d |-> <<>>]
DateTime(q) == [t |-> "dt", n |-> 0, s |-> <<>>, d |-> q]
\* bool(v) of a value.
Truthy(v) == CASE v.t = "null" -> FALSE
               [] v.t = "num" -> v.n # 0
               [] v.t = "str" -> v.s # <<>>
               [] OTHER -> TRUE

\* The value of a string of decimal digits.
RECURSIVE DecimalValue(_)
DecimalValue(s) ==
    IF s = <<>> THEN 0
    ELSE 10 * DecimalValue(SubSeq(s, 1, Len(s) - 1)) + DigitVal(s[Len(s)])

\* float(v): <<f>>, or None where float raises. Of the strings of the model's
\* alphabet float accepts the non-empty strings of digits.
Float(v) ==
    CASE v.t = "num" -> Some(v.n)
      [] v.t = "str" /\ v.s # <<>> /\ \A i \in 1..Len(v.s) : IsDigit(v.s[i])
            -> Some(DecimalValue(v.s))
      [] OTHER -> None

\* str(n) for an integer n.
RECURSIVE NatStr(_)
NatStr(n) == IF n < 10 THEN <<Digits[n + 1]>>
             ELSE Append(NatStr(n \div 10), Digits[(n % 10) + 1])
\* str(v) for a value that is not null.
StrOf(v) == IF v.t = "num"
            THEN (IF v.n < 0 THEN <<"-">> \o NatStr(-v.n) ELSE NatStr(v.n))
            ELSE v.s



\* ------------------------------------------------------------------ dates

\* str.replace(old, new) for a one-character old.
RECURSIVE Replace(_, _, _)
Replace(s, old, new) ==
    IF s = <<>> THEN <<>>
    ELSE (IF Head(s) = old THEN new ELSE <<Head(s)>>) \o Replace(Tail(s), old, new)

AllDigits(s) == \A i \in 1..Len(s) : IsDigit(s[i])
IsLeap(y) == (y % 4 = 0 /\ y % 100 # 0) \/ y % 400 = 0
DaysInMonth(y, m) ==
    IF m = 2 THEN (IF IsLeap(y) THEN 29 ELSE 28)
    ELSE IF m \in {4, 6, 9, 11} THEN 30 ELSE 31

\* The date part "YYYY-MM-DD" of an ISO string: <<y, m, d>>, or None.
IsoDate(s) ==
    IF /\ Len(s) = 10
       /\ AllDigits(SubSeq(s, 1, 4)) /\ s[5] = "-"
       /\ AllDigits(SubSeq(s, 6, 7)) /\ s[8] = "-"
       /\ AllDigits(SubSeq(s, 9, 10))
    THEN LET y == DecimalValue(SubSeq(s, 1, 4))
             m == DecimalValue(SubSeq(s, 6, 7))
             d == DecimalValue(SubSeq(s, 9, 10))
         IN  IF y >= 1 /\ m \in 1..12 /\ d >= 1 /\ d <= DaysInMonth(y, m)
             THEN Some(<<y, m, d>>) ELSE None
    ELSE None

\* The part "HH:MM:SS": <<h, m, s>>, or None.
IsoTime(s) ==
    IF /\ Len(s) = 8
       /\ AllDigits(SubSeq(s, 1, 2)) /\ s[3] = ":"
       /\ AllDigits(SubSeq(s, 4, 5)) /\ s[6] = ":"
       /\ AllDigits(SubSeq(s, 7, 8))
    THEN LET h == DecimalValue(SubSeq(s, 1, 2))
             m == DecimalValue(SubSeq(s, 4, 5))
             x == DecimalValue(SubSeq(s, 7, 8))
         IN  IF h < 24 /\ m < 60 /\ x < 60 THEN Some(<<h, m, x>>) ELSE None
    ELSE None

\* The part "+HH:MM" or "-HH:MM": the offset in seconds, or None.
IsoOffset(s) ==
    IF /\ Len(s) = 6 /\ s[1] \in {"+", "-"}
       /\ AllDigits(SubSeq(s, 2, 3)) /\ s[4] = ":" /\ AllDigits(SubSeq(s, 5, 6))
    THEN LET h == DecimalValue(SubSeq(s, 2, 3))
             m == DecimalValue(SubSeq(s, 5, 6))
         IN  IF h < 24 /\ m < 60
             THEN Some((IF s[1] = "-" THEN -1 ELSE 1) * (h * 3600 + m * 60))
             ELSE None
    ELSE None

\* datetime.fromisoformat(s) for the shapes YYYY-MM-DD, YYYY-MM-DDTHH:MM:SS and
\* YYYY-MM-DDTHH:MM:SS+HH:MM: <<fields>>, or None where it raises. The last
\* field is the utc offset, None for a naive datetime.
fromisoformat(s) ==
    IF Len(s) = 10
    THEN (IF IsNone(IsoDate(s)) THEN None
          ELSE Some(Val(IsoDate(s)) \o <<0, 0, 0, None>>))
    ELSE IF Len(s) \in {19, 25}
    THEN LET dd == IsoDate(SubSeq(s, 1, 10))
             tt == IsoTime(SubSeq(s, 12, 19))
             oo == IF Len(s) = 25 THEN IsoOffset(SubSeq(s, 20, 25)) ELSE Some(0)
         IN  IF IsNone(dd) \/ IsNone(tt) \/ IsNone(oo) THEN None
             ELSE Some(Val(dd) \o Val(tt) \o <<IF Len(s) = 25 THEN oo ELSE None>>)
    ELSE None

\* Days from 1970-01-01 to the civil date y-m-d (proleptic Gregorian).
DaysFromCivil(y, m, d) ==
    LET yy == IF m <= 2 THEN y - 1 ELSE y
        era == yy \div 400
        yoe == yy - era * 400
        mp == IF m > 2 THEN m - 3 ELSE m + 9
        doy == (153 * mp + 2) \div 5 + d - 1
        doe == yoe * 365 + yoe \div 4 - yoe \div 100 + doy
    IN  era * 146097 + doe - 719468

\* datetime.timestamp() of a timezone-aware datetime.
timestamp(dt) ==
    DaysFromCivil(dt[1], dt[2], dt[3]) * 86400
        + dt[4] * 3600 + dt[5] * 60 + dt[6] - Val(dt[7])

\* ------------------------------------------------------------------ files

\* A file: absent, present with text that is not JSON ("garbled"), or present
\* with JSON: an object (items: dict key -> value) or another JSON value, of
\* which only its truth value matters. mtime is st_mtime, None where stat fails.
AbsentFile == [state |-> "absent", kind |-> "other", truthy |-> FALSE,
               items |-> <<>>, mtime |-> None]
GarbledFile(m) == [state |-> "garbled", kind |-> "other", truthy |-> FALSE,
                   items |-> <<>>, mtime |-> m]
ObjectFile(it, m) == [state |-> "json", kind |-> "obj", truthy |-> it # <<>>,
                      items |-> it, mtime |-> m]
OtherJsonFile(b, m) == [state |-> "json", kind |-> "other", truthy |-> b,
                        items |-> <<>>, mtime |-> m]

\* read_json_file: the parsed value, None on any exception (no file, text that
\* is not JSON). A JSON value that is no object keeps only its truth value; a
\* JSON null loads as None, which every caller treats as it treats a false
\* value that is no object.
read_json_file(f) ==
    IF f.state = "json"
    THEN Some([kind |-> f.kind, truthy |-> f.truthy, items |-> f.items])
    ELSE None

\* dict.get(key) on a dict of values: None for a missing key.
PyGet(d, key) == IF DictHas(d, key) THEN DictVal(d, key) ELSE Null

\* dict.update(other).
RECURSIVE DictUpdate(_, _)
DictUpdate(d, other) ==
    IF other = <<>> THEN d
    ELSE DictUpdate(DictSet(d, Head(other).k, Head(other).v), Tail(other))

ZOffset == <<"+", "0", "0", ":", "0", "0">>

\* parse_result_file(result_file, template_keys): the parsed dict, None when
\* the file does not hold a JSON object. path is the file's path relative to
\* the repository, f the file.
parse_result_file(path, f, template_keys) ==
    LET data == read_json_file(f)
    IN  IF IsNone(data) \/ Val(data).kind # "obj" THEN None
        ELSE
        LET items == Val(data).items
            extracted == [i \in 1..Len(template_keys) |->
                            [k |-> template_keys[i], v |-> PyGet(items, template_keys[i])]]
            date_str == IF PyGet(extracted, "date") = Null
                        THEN PyGet(items, "date")
                        ELSE PyGet(extracted, "date")
            dt_iso == IF date_str.t = "str"
                      THEN fromisoformat(Replace(date_str.s, "Z", ZOffset))
                      ELSE None
            mtime_ts == IF IsNone(f.mtime) THEN Null ELSE Num(Val(f.mtime))
            aware == IF IsNone(dt_iso) THEN None
                     ELSE Some([Val(dt_iso) EXCEPT ![7] = IF IsNone(@) THEN Some(0) ELSE @])
            date_ts == IF IsNone(aware) THEN Null ELSE Num(timestamp(Val(aware)))
            r0 == <<[k |-> "file", v |-> Str(path)],
                    [k |-> "mtime_ts", v |-> mtime_ts],
                    [k |-> "date_ts", v |-> date_ts]>>
            r1 == DictUpdate(r0, extracted)
            r2 == IF date_str # Null THEN DictSet(r1, "date", date_str) ELSE r1
            r3 == IF IsNone(aware) THEN r2
                  ELSE DictSet(r2, "date_obj", DateTime(Val(aware)))
        IN  Some(r3)

\* The record discover_results builds from a parsed file:
\* {"code": ..., "machine": ..., "test": ..., **parsed}, and "plot" when a plot
\* path was returned.
MakeRecord(code, machine, test, parsed, plot_path) ==
    LET r == DictUpdate(<<[k |-> "code", v |-> Str(code)],
                          [k |-> "machine", v |-> Str(machine)],
                          [k |-> "test", v |-> Str(test)]>>, parsed)
    IN  IF Truthy(plot_path) THEN DictSet(r, "plot", plot_path) ELSE r

\* results/<code>/<machine>/<test>/<commit>/result.json, written without its
\* fixed first and last part.
ResultPath(code, machine, test, commit) ==
    code \o <<"/">> \o machine \o <<"/">> \o test \o <<"/">> \o commit

\* ------------------------------------------------- html_escape: the text

AmpEntity == <<"&", "a", "m", "p", ";">>
LtEntity == <<"&", "l", "t", ";">>
GtEntity == <<"&", "g", "t", ";">>
QuotEntity == <<"&", "q", "u", "o", "t", ";">>
AposEntity == <<"&", "#", "3", "9", ";">>

\* A chain of replacements that escapes the ampersand last.
ReplacementsAmpLast ==
    <<<<"<", LtEntity>>, <<">", GtEntity>>, <<"\"", QuotEntity>>,
      <<"'", AposEntity>>, <<"&", AmpEntity>>>>
\* The chain of str.replace calls of html_escape, in its order.
Replacements ==
    <<<<"&", AmpEntity>>, <<"<", LtEntity>>, <<">", GtEntity>>,
      <<"\"", QuotEntity>>, <<"'", AposEntity>>>>

\* The replacements reps applied to s, one after the other.
RECURSIVE ReplaceAll(_, _)
ReplaceAll(s, reps) ==
    IF reps = <<>> THEN s
    ELSE ReplaceAll(Replace(s, Head(reps)[1], Head(reps)[2]), Tail(reps))
\* html_escape(text) for a str text.
html_escape(s) == ReplaceAll(s, Replacements)

\* ------------------------------------------- generate_html: the reducer

\* The lists of generate_html hold references to the record objects of
\* results: a reference is the object's position in results.
Rec(i) == results[i]

\* results_by_test.setdefault(rec["test"], []).append(rec), for every record.
RECURSIVE GroupByTest(_, _)
GroupByTest(i, acc) ==
    IF i > Len(results) THEN acc
    ELSE LET t == DictVal(Rec(i), "test")
             old == IF DictHas(acc, t) THEN DictVal(acc, t) ELSE <<>>
         IN  GroupByTest(i + 1, DictSet(acc, t, Append(old, i)))

\* key = (r.get("code"), r.get("machine"))
KeyOf(r) == <<PyGet(r, "code"), PyGet(r, "machine")>>

\* The recency score of the record at position idx (from 0) of its test.
Score(r, idx) ==
    <<IF PyGet(r, "date_ts") # Null THEN PyGet(r, "date_ts").n ELSE -1,
      IF PyGet(r, "mtime_ts") # Null THEN PyGet(r, "mtime_ts").n ELSE -1,
      idx>>

\* A comparison that looks at the date alone.
ScoreGeDateOnly(score, prev) == score[1] >= prev[1]
\* score >= prev
ScoreGe(score, prev) == TupleGe(score, prev)

\* The first loop of the deduplication: best maps a key to its best score and
\* the index (from 0) that has it.
RECURSIVE BestIndexForKey(_, _, _)
BestIndexForKey(recs, i, best) ==
    IF i > Len(recs) THEN best
    ELSE LET key == KeyOf(Rec(recs[i]))
             score == Score(Rec(recs[i]), i - 1)
         IN  IF key \notin DOMAIN best \/ ScoreGe(score, best[key].score)
             THEN BestIndexForKey(recs, i + 1,
                    [k \in DOMAIN best \cup {key} |->
                        IF k = key THEN [score |-> score, index |-> i - 1]
                        ELSE best[k]])
             ELSE BestIndexForKey(recs, i + 1, best)

\* The second loop: the records at their key's best index, in the order of recs.
RECURSIVE BuildDeduped(_, _, _, _, _)
BuildDeduped(recs, i, best, seen_keys, deduped) ==
    IF i > Len(recs) THEN deduped
    ELSE LET key == KeyOf(Rec(recs[i]))
         IN  IF key \in seen_keys
             THEN BuildDeduped(recs, i + 1, best, seen_keys, deduped)
             ELSE IF best[key].index = i - 1
             THEN BuildDeduped(recs, i + 1, best, seen_keys \cup {key},
                               Append(deduped, recs[i]))
             ELSE BuildDeduped(recs, i + 1, best, seen_keys, deduped)

NoBest == [k \in {} |-> [score |-> <<>>, index |-> 0]]

\* A deduplication that lists the kept records in the order in which their
\* keys first appear.
RECURSIVE KeptInKeyOrder(_, _, _, _, _)
KeptInKeyOrder(recs, i, best, seen_keys, deduped) ==
    IF i > Len(recs) THEN deduped
    ELSE LET key == KeyOf(Rec(recs[i]))
         IN  IF key \in seen_keys
             THEN KeptInKeyOrder(recs, i + 1, best, seen_keys, deduped)
             ELSE KeptInKeyOrder(recs, i + 1, best, seen_keys \cup {key},
                                 Append(deduped, recs[best[key].index + 1]))
DedupInKeyOrder(recs) ==
    KeptInKeyOrder(recs, 1, BestIndexForKey(recs, 1, NoBest), {}, <<>>)

\* The deduplication of the records of one test.
Dedup(recs) == BuildDeduped(recs, 1, BestIndexForKey(recs, 1, NoBest), {}, <<>>)

\* ------------------------------------------ generate_html: the ordering

\* A sort key that compares strings as they are written.
val_for_sort_cased(r, sort_by) ==
    LET v == IF sort_by = "date"
             THEN (IF PyGet(r, "date_ts") # Null THEN PyGet(r, "date_ts")
                   ELSE PyGet(r, "date"))
             ELSE PyGet(r, sort_by)
    IN  IF v = Null THEN [miss |-> 1, kind |-> 0, f |-> 0, s |-> <<>>]
        ELSE IF ~IsNone(Float(v))
        THEN [miss |-> 0, kind |-> 0, f |-> Val(Float(v)), s |-> <<>>]
        ELSE [miss |-> 0, kind |-> 1, f |-> 0, s |-> StrOf(v)]

\* The sort key of a record: (1, 0, "") for a missing value, (0, 0, float(v))
\* for a number, (0, 1, str(v).lower()) otherwise.
val_for_sort(r, sort_by) ==
    LET v == IF sort_by = "date"
             THEN (IF PyGet(r, "date_ts") # Null THEN PyGet(r, "date_ts")
                   ELSE PyGet(r, "date"))
             ELSE PyGet(r, sort_by)
    IN  IF v = Null THEN [miss |-> 1, kind |-> 0, f |-> 0, s |-> <<>>]
        ELSE IF ~IsNone(Float(v))
        THEN [miss |-> 0, kind |-> 0, f |-> Val(Float(v)), s |-> <<>>]
        ELSE [miss |-> 0, kind |-> 1, f |-> 0, s |-> Lower(StrOf(v))]

\* Python's < on two sort keys.
KeyLt(a, b) ==
    IF a.miss # b.miss THEN a.miss < b.miss
    ELSE IF a.kind # b.kind THEN a.kind < b.kind
    ELSE IF a.kind = 0 THEN a.f < b.f
    ELSE StrLt(a.s, b.s)

\* list.sort(key=...) is stable: x goes after the elements that are not
\* greater than it.
RECURSIVE InsertByKey(_, _, _)
InsertByKey(s, x, sort_by) ==
    IF s = <<>> THEN <<x>>
    ELSE IF KeyLt(val_for_sort(Rec(x), sort_by), val_for_sort(Rec(Head(s)), sort_by))
    THEN <<x>> \o s
    ELSE <<Head(s)>> \o InsertByKey(Tail(s), x, sort_by)

RECURSIVE StableSort(_, _)
StableSort(s, sort_by) ==
    IF s = <<>> THEN <<>>
    ELSE InsertByKey(StableSort(SubSeq(s, 1, Len(s) - 1), sort_by), s[Len(s)], sort_by)

\* recs.sort(key=_val_for_sort, reverse=reverse): with reverse the list is
\* reversed, sorted, and reversed again.
ListSort(s, sort_by, reverse) ==
    IF reverse THEN Reverse(StableSort(Reverse(s), sort_by))
    ELSE StableSort(s, sort_by)

Asc == <<"a", "s", "c">>
Desc == <<"d", "e", "s", "c">>

\* benchmarks.get(test_name, {}) with the defaults of each later meta.get.
MetaFor(bm, test_name) ==
    IF DictHas(bm, test_name) THEN DictVal(bm, test_name)
    ELSE [name |-> test_name, description |-> <<>>, tags |-> <<>>,
          sort_by |-> None, sort_dir |-> Asc, data_file |-> FALSE,
          readme |-> None, template_keys |-> <<>>]

\* sort_by as the table uses it: "setup" is never an initial sort key.
EffectiveSortBy(meta) ==
    IF meta.sort_by = Some("setup") THEN None ELSE meta.sort_by
\* (meta.get("sort_dir") or "asc").lower()
EffectiveSortDir(meta) ==
    Lower(IF meta.sort_dir = <<>> THEN Asc ELSE meta.sort_dir)

\* A table that is left in the order of the kept records.
InitialOrderUnsorted(meta, recs) == recs

\* The records of one table in their initial order.
InitialOrder(meta, recs) ==
    LET sort_by == EffectiveSortBy(meta)
    IN  IF ~IsNone(sort_by) /\ Val(sort_by) # "" /\ recs # <<>>
        THEN ListSort(recs, Val(sort_by), EffectiveSortDir(meta) = Desc)
        ELSE recs


\* sorted(names) for str values.
RECURSIVE InsertName(_, _)
InsertName(s, x) ==
    IF s = <<>> THEN <<x>>
    ELSE IF StrLt(x.s, Head(s).s) THEN <<x>> \o s
    ELSE <<Head(s)>> \o InsertName(Tail(s), x)
RECURSIVE SortedNames(_)
SortedNames(s) ==
    IF s = <<>> THEN <<>>
    ELSE InsertName(SortedNames(SubSeq(s, 1, Len(s) - 1)), s[Len(s)])

\* ------------------------------------------- generate_html: the tables

\* The decimal digits of n, padded with zeros to the width w.
RECURSIVE Pad(_, _)
Pad(n, w) == IF w = 0 THEN <<>> ELSE Append(Pad(n \div 10, w - 1), Digits[(n % 10) + 1])
\* date_obj.strftime("%Y-%m-%d")
strftime(dt) == Pad(dt[1], 4) \o <<"-">> \o Pad(dt[2], 2) \o <<"-">> \o Pad(dt[3], 2)

\* The record keys that never become a column of a table without template.
HiddenKeys ==
    {"code", "machine", "test", "file", "date_obj", "plot", "mtime_ts", "date_ts"}
\* The union of the keys of the records from the i-th on, in order of first
\* appearance, added to tmp.
RECURSIVE UnionOfKeys(_, _, _)
UnionOfKeys(recs, i, tmp) ==
    IF i > Len(recs) THEN tmp
    ELSE LET new == SelectSeq(DictKeys(Rec(recs[i])),
                              LAMBDA kk : kk \notin HiddenKeys /\ kk \notin Range(tmp))
         IN  UnionOfKeys(recs, i + 1, tmp \o new)
\* The keys that give the table of a test its dynamic columns.
TableKeys(meta, recs) ==
    IF meta.template_keys # <<>> THEN meta.template_keys
    ELSE UnionOfKeys(recs, 1, <<>>)

\* initial_sort_col: the index of the column of sort_by, None when the table
\* is not sorted or sort_by is no column.
InitialSortCol(meta, recs, template_keys) ==
    LET sort_by == EffectiveSortBy(meta)
    IN  IF /\ ~IsNone(sort_by) /\ Val(sort_by) # "" /\ recs # <<>>
           /\ Val(sort_by) \in Range(template_keys)
        THEN Some(3 + (CHOOSE i \in 1..Len(template_keys) :
                          template_keys[i] = Val(sort_by)) - 1)
        ELSE None

\* A header cell: what the column holds (kind, and key for a field), the
\* column index that its onclick passes to onHeaderClick (None: no onclick),
\* and its sort indicator class.
HeaderCell(kind, key, col, cls) == [kind |-> kind, key |-> key, col |-> col, cls |-> cls]
\* The header cells that ignore the benchmark's data file.
HeaderCellsWithoutPlot(meta, template_keys) ==
    LET sort_by == EffectiveSortBy(meta)
        desc == EffectiveSortDir(meta) = Desc
        init_cls(kk) == IF sort_by = Some(kk) THEN (IF desc THEN "sort-desc" ELSE "sort-asc")
                        ELSE ""
    IN  <<HeaderCell("rank", "", None, ""), HeaderCell("code", "", Some(1), ""),
          HeaderCell("machine", "", Some(2), "")>>
        \o [i \in 1..Len(template_keys) |->
              IF template_keys[i] = "setup"
              THEN HeaderCell("field", template_keys[i], None, "")
              ELSE HeaderCell("field", template_keys[i], Some(3 + i - 1),
                              init_cls(template_keys[i]))]
\* The header cells of a table.
HeaderCells(meta, template_keys) ==
    HeaderCellsWithoutPlot(meta, template_keys)
        \o (IF meta.data_file THEN <<HeaderCell("plot", "", None, "")>> ELSE <<>>)

\* The table attributes and the header of a test.
RenderHeader(meta, recs) ==
    LET template_keys == TableKeys(meta, recs)
        initial_sort_col == InitialSortCol(meta, recs, template_keys)
    IN  [sort_col |-> initial_sort_col,
         sort_asc |-> IF IsNone(initial_sort_col) THEN None
                      ELSE Some(EffectiveSortDir(meta) # Desc),
         cells |-> HeaderCells(meta, template_keys)]

\* A cell of a row: its data-sort attribute (None: no attribute) and its
\* text, both as written into the document.
Cell(kind, key, sort, txt) == [kind |-> kind, key |-> key, sort |-> sort, text |-> txt]
\* The cell of the record r for the template key kk.
FieldCell(r, kk) ==
    LET val == IF kk = "date" /\ Truthy(PyGet(r, "date_obj"))
               THEN Str(strftime(PyGet(r, "date_obj").d))
               ELSE PyGet(r, kk)
        val_str == IF val = Null THEN <<>> ELSE StrOf(val)
        display_val == IF kk = "commit" /\ Len(val_str) > 8 THEN SubSeq(val_str, 1, 8)
                       ELSE val_str
    IN  IF kk = "setup" /\ val_str # <<>>
        THEN Cell("field", kk, Some(html_escape(val_str)), <<>>)
        ELSE Cell("field", kk, Some(html_escape(val_str)), html_escape(display_val))
\* The cells of the row of rank idx for the record r. The codes of the model
\* have no code.json, so the code cell holds no link.
RowCells(meta, template_keys, r, idx) ==
    <<Cell("rank", "", Some(NatStr(idx)), NatStr(idx)),
      Cell("code", "", Some(html_escape(StrOf(DictVal(r, "code")))),
           html_escape(StrOf(DictVal(r, "code")))),
      Cell("machine", "", Some(html_escape(StrOf(DictVal(r, "machine")))),
           html_escape(StrOf(DictVal(r, "machine"))))>>
    \o [i \in 1..Len(template_keys) |-> FieldCell(r, template_keys[i])]
    \o (IF ~meta.data_file THEN <<>>
        ELSE IF Truthy(PyGet(r, "plot"))
        THEN <<Cell("plot", "", None, <<>>)>>
        ELSE <<Cell("plot", "", None, <<"-">>)>>)

\* The rows of one table: rank from 1, the first row marked best, every row
\* displayed.
RenderRows(meta, recs) ==
    LET template_keys == TableKeys(meta, recs)
    IN  [i \in 1..Len(recs) |->
            [rank |-> i, best |-> i = 1, rec |-> recs[i], hidden |-> FALSE,
             cells |-> RowCells(meta, template_keys, Rec(recs[i]), i)]]

\* ------------------------------------------- generate_html: the actions

\* Group the results by test.
GroupResults ==
    /\ pc = "generate_html"
    /\ results_by_test' = GroupByTest(1, <<>>)
    /\ todo' = DictKeys(results_by_test')
    /\ pc' = "dedup"
    /\ UNCHANGED <<benchmarks, results, deduped_by_test, tables, headers, fs, text,
                   trace, frame>>

\* One iteration of the deduplication loop over results_by_test.
DedupTest ==
    /\ pc = "dedup"
    /\ todo # <<>>
    /\ LET tname == Head(todo)
       IN  deduped_by_test' =
               DictSet(deduped_by_test, tname, Dedup(DictVal(results_by_test, tname)))
    /\ IF Tail(todo) = <<>>
       THEN /\ pc' = "render"
            /\ todo' = SortedNames(DictKeys(deduped_by_test'))
       ELSE /\ pc' = "dedup"
            /\ todo' = Tail(todo)
    /\ UNCHANGED <<benchmarks, results, results_by_test, tables, headers, fs, text,
                   trace, frame>>

\* No results: the document says so and has no table.
RenderNoResults ==
    /\ pc = "dedup"
    /\ todo = <<>>
    /\ pc' = "done"
    /\ UNCHANGED <<benchmarks, results, results_by_test, deduped_by_test, todo,
                   tables, headers, fs, text, trace, frame>>

\* One iteration of the loop over sorted(deduped_by_test.items()): sort the
\* kept records in place and emit the rows of the table.
RenderTest ==
    /\ pc = "render"
    /\ todo # <<>>
    /\ LET test_name == Head(todo)
           meta == MetaFor(benchmarks, test_name.s)
           recs == InitialOrder(meta, DictVal(deduped_by_test, test_name))
       IN  /\ deduped_by_test' = DictSet(deduped_by_test, test_name, recs)
           /\ headers' = DictSet(headers, test_name, RenderHeader(meta, recs))
           /\ tables' = DictSet(tables, test_name, RenderRows(meta, recs))
    /\ todo' = Tail(todo)
    /\ pc' = IF Tail(todo) = <<>> THEN "done" ELSE "render"
    /\ UNCHANGED <<benchmarks, results, results_by_test, fs, text, trace, frame>>

ReduceNext == GroupResults \/ DedupTest \/ RenderNoResults \/ RenderTest

\* ------------------------------------------------- the inputs of a run

T1 == <<"t", "1">>
T2 == <<"t", "2">>
CodeA == <<"a">>
CodeB == <<"b">>
CodeC == <<"c">>
MachineM == <<"m">>

\* Dates of result files: 1969-12-31T23:59:58Z and 1970-01-02.
Date1969 == Str(<<"1", "9", "6", "9", "-", "1", "2", "-", "3", "1", "T",
                  "2", "3", ":", "5", "9", ":", "5", "8", "Z">>)
Date1970 == Str(<<"1", "9", "7", "0", "-", "0", "1", "-", "0", "2">>)

\* The commit directory of the i-th result file.
Commit(i) == <<"c", Digits[i + 1]>>

\* A benchmark definition as discover_benchmarks builds it.
Definition(name, sort_by, sort_dir, keys) ==
    [name |-> name, description |-> <<>>, tags |-> <<>>, sort_by |-> sort_by,
     sort_dir |-> sort_dir, data_file |-> FALSE, readme |-> None,
     template_keys |-> keys]

\* The record of the i-th result file, found under code/machine/test, with
\* the JSON object items and the modification time mtime.
RecordOf(i, code, test, items, mtime, keys) ==
    MakeRecord(code, MachineM, test,
               Val(parse_result_file(ResultPath(code, MachineM, test, Commit(i)),
                                     ObjectFile(items, mtime), keys)),
               Null)

\* Result files that compete for the keys (a, m) and (b, m) of test t1 and
\* (a, m) of test t2, with and without a date and a modification time.
DedupPlaces == <<<<CodeA, T1>>, <<CodeB, T1>>, <<CodeA, T2>>>>
DedupTimes == <<<<Null, Some(5)>>, <<Date1969, Some(5)>>, <<Date1970, None>>,
                <<Date1970, Some(5)>>>>
DedupKeys == <<"date", "score">>
\* The record of the i-th result file, at place p with times w.
DedupRecord ==
    [i \in 1..MaxRecs, p \in 1..Len(DedupPlaces), w \in 1..Len(DedupTimes) |->
        RecordOf(i, DedupPlaces[p][1], DedupPlaces[p][2],
                 IF DedupTimes[w][1] = Null THEN <<>>
                 ELSE <<[k |-> "date", v |-> DedupTimes[w][1]]>>,
                 DedupTimes[w][2], DedupKeys)]
DedupInputs == (1..Len(DedupPlaces)) \X (1..Len(DedupTimes))
DedupRecords(inp) ==
    [i \in 1..Len(inp) |-> DedupRecord[i, inp[i][1], inp[i][2]]]
DedupRegistries ==
    {<<[k |-> T1, v |-> Definition(T1, c[1], c[2], DedupKeys)],
       [k |-> T2, v |-> Definition(T2, c[1], c[2], DedupKeys)]>> :
        c \in {<<None, Asc>>, <<Some("date"), Asc>>, <<Some("date"), Desc>>}}

\* Result files of one test that differ in code and score.
SortCodes == <<CodeA, CodeB, CodeC>>
ScoreValues ==
    <<Null, Num(10), Str(<<"9">>), Str(<<"#", "B">>), Str(<<"#", "a">>)>>
SortKeys == <<"score">>
\* The record of the i-th result file, of code c with score v.
SortRecord ==
    [i \in 1..MaxRecs, c \in 1..Len(SortCodes), v \in 1..Len(ScoreValues) |->
        RecordOf(i, SortCodes[c], T1, <<[k |-> "score", v |-> ScoreValues[v]]>>,
                 Some(5), SortKeys)]
SortInputs == (1..Len(SortCodes)) \X (1..Len(ScoreValues))
SortRecords(inp) ==
    [i \in 1..Len(inp) |-> SortRecord[i, inp[i][1], inp[i][2]]]
SortRegistries ==
    {<<[k |-> T1, v |-> Definition(T1, Some("score"), d, SortKeys)]>> :
        d \in {Asc, Desc}}

ReduceInit ==
    /\ pc = "generate_html"
    /\ results_by_test = <<>>
    /\ deduped_by_test = <<>>
    /\ todo = <<>>
    /\ tables = <<>>
    /\ headers = <<>>
    /\ fs = <<>>
    /\ text = <<>>
    /\ trace = <<>>
    /\ frame = <<>>

\* generate_html on records that compete for a (code, machine) key.
Init ==
    /\ benchmarks \in DedupRegistries
    /\ \E n \in 0..MaxRecs : \E inp \in [1..n -> DedupInputs] :
          results = DedupRecords(inp)
    /\ ReduceInit
Next == ReduceNext
Spec == Init /\ [][Next]_vars

\* generate_html on records of one sorted test.
SortInit ==
    /\ benchmarks \in SortRegistries
    /\ \E n \in 0..MaxRecs : \E inp \in [1..n -> SortInputs] :
          results = SortRecords(inp)
    /\ ReduceInit
SpecSort == SortInit /\ [][Next]_vars

\* ----------------------------------------------- the claims: the reducer

TestOf(i) == DictVal(results[i], "test")
\* The candidates for the key of record i: the records of its test with its
\* (code, machine).
Candidates(i) ==
    {j \in 1..Len(results) : TestOf(j) = TestOf(i) /\ KeyOf(results[j]) = KeyOf(results[i])}
\* The discovery position of record i among the records of its test.
Position(i) == Cardinality({j \in 1..(i - 1) : TestOf(j) = TestOf(i)})
DateTsOf(i) == PyGet(results[i], "date_ts")
MtimeTsOf(i) == PyGet(results[i], "mtime_ts")
OrMinusOne(v) == IF v = Null THEN -1 ELSE v.n
\* i's triple is lexicographically greater than j's.
MoreRecent(i, j) ==
    \/ OrMinusOne(DateTsOf(i)) > OrMinusOne(DateTsOf(j))
    \/ /\ OrMinusOne(DateTsOf(i)) = OrMinusOne(DateTsOf(j))
       /\ \/ OrMinusOne(MtimeTsOf(i)) > OrMinusOne(MtimeTsOf(j))
          \/ /\ OrMinusOne(MtimeTsOf(i)) = OrMinusOne(MtimeTsOf(j))
             /\ Position(i) > Position(j)
\* The records kept for the test of record i.
KeptList(i) == DictVal(deduped_by_test, TestOf(i))
IsKept(i) == i \in Range(KeptList(i))
Deduplicated == pc = "done"

\* C1: of the N >= 1 candidates for a (code, machine) key of a test exactly
\* one is kept, the one with the greatest triple (date_ts or -1, mtime_ts or
\* -1, discovery position); of candidates equal on the first two components
\* the later-discovered one is kept.
C1_KeepsGreatestTriple ==
    Deduplicated =>
        \A i \in 1..Len(results) :
            /\ Cardinality({j \in Candidates(i) : IsKept(j)}) = 1
            /\ Cardinality({p \in 1..Len(KeptList(i)) : KeptList(i)[p] \in Candidates(i)}) = 1
            /\ IsKept(i) <=> \A j \in Candidates(i) \ {i} : MoreRecent(i, j)
            /\ \A j \in Candidates(i) :
                 (/\ IsKept(i)
                  /\ OrMinusOne(DateTsOf(j)) = OrMinusOne(DateTsOf(i))
                  /\ OrMinusOne(MtimeTsOf(j)) = OrMinusOne(MtimeTsOf(i))) => j <= i

\* Three candidates for one key: the first two tie on date and modification
\* time, the third is older, and the second is the one kept.
C1_Witness ==
    /\ pc = "done"
    /\ Len(results) = 3
    /\ Candidates(1) = {1, 2, 3}
    /\ DateTsOf(1) = DateTsOf(2) /\ MtimeTsOf(1) = MtimeTsOf(2)
    /\ DateTsOf(1) # Null /\ DateTsOf(3) # Null /\ DateTsOf(3).n < DateTsOf(2).n
    /\ KeptList(1) = <<2>>

\* C2: of two candidates for a key of which one has a parsed date and the
\* other none, the undated one is never the one kept.
C2_DatedBeatsUndated ==
    Deduplicated =>
        \A i \in 1..Len(results) : \A j \in Candidates(i) :
            (DateTsOf(i) # Null /\ DateTsOf(j) = Null) => ~IsKept(j)

\* The rows of the table of test t, as references to records.
RowRecs(t) == [p \in 1..Len(DictVal(tables, t)) |-> DictVal(tables, t)[p].rec]
DeclaredSortBy(t) == MetaFor(benchmarks, t.s).sort_by
DeclaredSortDir(t) == MetaFor(benchmarks, t.s).sort_dir
\* The value a record is sorted by: date_ts, else the raw date, for "date".
SortValue(i, sort_by) ==
    IF sort_by = "date"
    THEN (IF DateTsOf(i) # Null THEN DateTsOf(i) ELSE PyGet(results[i], "date"))
    ELSE PyGet(results[i], sort_by)
Rendered == pc = "done"
Tables == {tables[p].k : p \in 1..Len(tables)}

\* C3: in a table with a declared sort_by no row with a missing sort value
\* comes before a row with a present one, whether sort_dir is asc or desc.
C3_MissingValuesLast ==
    Rendered =>
        \A t \in Tables : ~IsNone(DeclaredSortBy(t)) =>
            \A p, q \in 1..Len(RowRecs(t)) :
                (p < q /\ SortValue(RowRecs(t)[p], Val(DeclaredSortBy(t))) = Null)
                    => SortValue(RowRecs(t)[q], Val(DeclaredSortBy(t))) = Null

\* The row values of a table with a declared sort_by.
SortValueAt(t, p) == SortValue(RowRecs(t)[p], Val(DeclaredSortBy(t)))
Parseable(v) == ~IsNone(Float(v))
LowerForm(v) == Lower(StrOf(v))
Descending(t) == EffectiveSortDir(MetaFor(benchmarks, t.s)) = Desc
\* Tables sorted by a field other than date.
SortedByField(t) ==
    ~IsNone(DeclaredSortBy(t)) /\ Val(DeclaredSortBy(t)) \notin {"date", "setup", ""}

\* a comes strictly before b: numerically if both parse, otherwise by the
\* lower-cased string forms.
LexicalUnlessBothNumbers(a, b) ==
    IF Parseable(a) /\ Parseable(b) THEN Val(Float(a)) < Val(Float(b))
    ELSE StrLt(LowerForm(a), LowerForm(b))

NumbersBeforeStrings(a, b) ==
    IF Parseable(a) /\ Parseable(b) THEN Val(Float(a)) < Val(Float(b))
    ELSE IF ~Parseable(a) /\ ~Parseable(b) THEN StrLt(LowerForm(a), LowerForm(b))
    ELSE Parseable(a)

C6_DiscoveryOrderKept ==
    Rendered =>
        \A t \in Tables : IsNone(DeclaredSortBy(t)) =>
            /\ \A p, q \in 1..Len(RowRecs(t)) : p < q => RowRecs(t)[p] < RowRecs(t)[q]
            /\ Range(RowRecs(t)) =
                   {i \in 1..Len(results) :
                       TestOf(i) = t /\ \A j \in Candidates(i) \ {i} : MoreRecent(i, j)}

\* A table without sort_by whose two rows are the first and the third record
\* discovered, the second having been dropped for the third.
C6_Witness ==
    /\ Rendered
    /\ Str(T1) \in Tables
    /\ IsNone(DeclaredSortBy(Str(T1)))
    /\ Len(results) = 3
    /\ RowRecs(Str(T1)) = <<1, 3>>
    /\ Candidates(2) = {2, 3}

\* ------------------------------------------------------------ html_escape

\* The longest text handed to html_escape.
MaxText == 3

\* The arguments of html_escape: a str over the significant characters and a
\* few others, or a number (a field value).
EscapeChars == {"&", "<", ">", "\"", "'", ";", "#", "l", "t", "s"}
EscapeArgs ==
    {Str(q) : q \in SeqUpTo(EscapeChars, MaxText)} \cup {Num(-1), Num(10)}

\* html_escape(text) is called; trace holds its argument.
EscapeInit ==
    /\ pc = "html_escape"
    /\ trace \in {<<v>> : v \in EscapeArgs}
    /\ text = <<>>
    /\ todo = <<>>
    /\ benchmarks = <<>>
    /\ results = <<>>
    /\ results_by_test = <<>>
    /\ deduped_by_test = <<>>
    /\ tables = <<>>
    /\ headers = <<>>
    /\ fs = <<>>
    /\ frame = <<>>

\* str(text)
EscapeStr ==
    /\ pc = "html_escape"
    /\ text' = StrOf(trace[1])
    /\ todo' = Replacements
    /\ pc' = "replace"
    /\ UNCHANGED <<benchmarks, results, results_by_test, deduped_by_test, tables,
                   headers,
                   fs, trace, frame>>

\* The next .replace(old, new) of the chain; after the last one the result
\* is returned.
EscapeReplace ==
    /\ pc = "replace"
    /\ todo # <<>>
    /\ text' = Replace(text, Head(todo)[1], Head(todo)[2])
    /\ todo' = Tail(todo)
    /\ pc' = IF Tail(todo) = <<>> THEN "escaped" ELSE "replace"
    /\ UNCHANGED <<benchmarks, results, results_by_test, deduped_by_test, tables,
                   headers,
                   fs, trace, frame>>

EscapeNext == EscapeStr \/ EscapeReplace
SpecEscape == EscapeInit /\ [][EscapeNext]_vars

\* ------------------------------------------------ the claims: html_escape

Entities == {AmpEntity, LtEntity, GtEntity, QuotEntity, AposEntity}
\* The entity that starts at position i of s, if any.
EntityAt(s, i) ==
    {e \in Entities : i + Len(e) - 1 <= Len(s) /\ SubSeq(s, i, i + Len(e) - 1) = e}
Decoded(e) ==
    CASE e = AmpEntity -> "&"
      [] e = LtEntity -> "<"
      [] e = GtEntity -> ">"
      [] e = QuotEntity -> "\""
      [] e = AposEntity -> "'"
\* The text a browser shows for s: each entity read as its character.
RECURSIVE Shown(_, _)
Shown(s, i) ==
    IF i > Len(s) THEN <<>>
    ELSE IF EntityAt(s, i) # {}
    THEN LET e == CHOOSE x \in EntityAt(s, i) : TRUE
         IN  <<Decoded(e)>> \o Shown(s, i + Len(e))
    ELSE <<s[i]>> \o Shown(s, i + 1)

\* C7: the result of html_escape holds no raw <, >, " or ', each of its &
\* begins one of the five entities, and it shows as the text it was given.
C7_EscapedTextIsInert ==
    pc = "escaped" =>
        /\ \A i \in 1..Len(text) :
            /\ text[i] \notin {"<", ">", "\"", "'"}
            /\ text[i] = "&" => EntityAt(text, i) # {}
        /\ Shown(text, 1) = StrOf(trace[1])

\* The text <&' has been escaped to &lt;&amp;&#39;.
C7_Witness ==
    /\ pc = "escaped"
    /\ trace[1] = Str(<<"<", "&", "'">>)
    /\ text = LtEntity \o AmpEntity \o AposEntity

\* ------------------------------------------------------ discover_benchmarks

\* The most entries of the benchmarks directory.
MaxBenchmarks == 2

\* The i-th entry of the benchmarks directory is named t<i>.
BenchName(i) == <<"t", Digits[i + 1]>>

\* A JSON string that names a field, as the key it names.
FieldNames == <<[k |-> "score", v |-> <<"s", "c", "o", "r", "e">>],
                [k |-> "date", v |-> <<"d", "a", "t", "e">>]>>
FieldOf(s) == FieldNames[CHOOSE i \in 1..Len(FieldNames) : FieldNames[i].v = s].k

\* The {} of "read_json_file(...) or {}".
EmptyDict == [kind |-> "obj", truthy |-> FALSE, items |-> <<>>]
\* x or {} for the result x of read_json_file.
OrEmptyDict(x) == IF IsNone(x) \/ ~Val(x).truthy THEN EmptyDict ELSE Val(x)

\* The entry of benchmarks that discover_benchmarks builds for the directory
\* item from info (a dict) and template_data. The info.json files of the
\* model hold strings under name, description, sort_by and sort_dir, true as
\* 1 under data_file, and no tags.
BenchmarkEntry(item, info, template_data) ==
    [name |-> IF DictHas(info, "name") THEN DictVal(info, "name").s ELSE item.name,
     description |-> IF DictHas(info, "description")
                     THEN DictVal(info, "description").s ELSE <<>>,
     tags |-> <<>>,
     sort_by |-> IF DictHas(info, "sort_by")
                 THEN Some(FieldOf(DictVal(info, "sort_by").s)) ELSE None,
     sort_dir |-> IF DictHas(info, "sort_dir") THEN DictVal(info, "sort_dir").s ELSE Asc,
     data_file |-> IF DictHas(info, "data_file")
                   THEN Truthy(DictVal(info, "data_file")) ELSE FALSE,
     readme |-> IF item.readme THEN Some(item.name) ELSE None,
     template_keys |-> IF template_data.kind = "obj"
                       THEN DictKeys(template_data.items) ELSE <<>>]

\* discover_benchmarks starts: no benchmarks directory, or the loop over its
\* entries.
DiscoverBenchmarks ==
    /\ pc = "discover_benchmarks"
    /\ IF IsNone(fs.benchmarks)
       THEN pc' = "discovered" /\ todo' = <<>>
       ELSE pc' = "benchmark_item" /\ todo' = Val(fs.benchmarks)
    /\ UNCHANGED <<benchmarks, results, results_by_test, deduped_by_test, tables,
                   headers,
                   fs, text, trace, frame>>

\* One iteration of the loop over BENCHMARKS_DIR.iterdir(). info.get raises
\* AttributeError when info is no dict, and nothing catches it.
BenchmarkItem ==
    /\ pc = "benchmark_item"
    /\ todo # <<>>
    /\ LET item == Head(todo)
           info == OrEmptyDict(read_json_file(item.info))
           template_data == OrEmptyDict(read_json_file(item.template))
       IN  IF ~item.is_dir
           THEN pc' = pc /\ todo' = Tail(todo) /\ benchmarks' = benchmarks
           ELSE IF info.kind # "obj"
           THEN pc' = "raised" /\ todo' = todo /\ benchmarks' = benchmarks
           ELSE /\ pc' = pc
                /\ todo' = Tail(todo)
                /\ benchmarks' = DictSet(benchmarks, item.name,
                                         BenchmarkEntry(item, info.items, template_data))
    /\ UNCHANGED <<results, results_by_test, deduped_by_test, tables, headers, fs, text,
                   trace, frame>>

\* return benchmarks
BenchmarksReturn ==
    /\ pc = "benchmark_item"
    /\ todo = <<>>
    /\ pc' = "discovered"
    /\ UNCHANGED <<benchmarks, results, results_by_test, deduped_by_test, todo,
                   tables, headers, fs, text, trace, frame>>

BenchNext == DiscoverBenchmarks \/ BenchmarkItem \/ BenchmarksReturn

\* The info.json and template.json files of the benchmark directories.
InfoFiles ==
    {AbsentFile, GarbledFile(Some(5)), OtherJsonFile(FALSE, Some(5)),
     OtherJsonFile(TRUE, Some(5)), ObjectFile(<<>>, Some(5)),
     ObjectFile(<<[k |-> "name", v |-> Str(<<"B">>)],
                  [k |-> "data_file", v |-> Num(1)]>>, Some(5)),
     ObjectFile(<<[k |-> "sort_by", v |-> Str(<<"s", "c", "o", "r", "e">>)],
                  [k |-> "sort_dir", v |-> Str(Desc)]>>, Some(5))}
TemplateFiles ==
    {AbsentFile, OtherJsonFile(TRUE, Some(5)),
     ObjectFile(<<[k |-> "date", v |-> Null], [k |-> "score", v |-> Null]>>, Some(5))}
\* The i-th entry of the benchmarks directory: a plain file or a directory.
BenchmarkItems(i) ==
    {[name |-> BenchName(i), is_dir |-> FALSE, info |-> AbsentFile,
      template |-> AbsentFile, readme |-> FALSE]}
    \cup {[name |-> BenchName(i), is_dir |-> TRUE, info |-> f, template |-> t,
           readme |-> r] : f \in InfoFiles, t \in TemplateFiles, r \in BOOLEAN}
RECURSIVE BenchmarkTrees(_)
BenchmarkTrees(n) ==
    IF n = 0 THEN {<<>>}
    ELSE {Append(s, x) : s \in BenchmarkTrees(n - 1), x \in BenchmarkItems(n)}

\* discover_benchmarks on a benchmarks directory, or without one.
BenchInit ==
    /\ pc = "discover_benchmarks"
    /\ \E o \in {None} \cup {Some(s) : s \in UNION {BenchmarkTrees(n) : n \in 0..MaxBenchmarks}} :
          fs = [benchmarks |-> o, results |-> None, plot_py |-> <<>>]
    /\ benchmarks = <<>>
    /\ results = <<>>
    /\ results_by_test = <<>>
    /\ deduped_by_test = <<>>
    /\ todo = <<>>
    /\ tables = <<>>
    /\ headers = <<>>
    /\ text = <<>>
    /\ trace = <<>>
    /\ frame = <<>>
SpecBench == BenchInit /\ [][BenchNext]_vars

\* -------------------------------------- the claims: discover_benchmarks

\* The positions of the directories among the entries of benchmarks/.
BenchmarkDirs ==
    IF IsNone(fs.benchmarks) THEN {}
    ELSE {i \in 1..Len(Val(fs.benchmarks)) : Val(fs.benchmarks)[i].is_dir}
BenchmarkDir(i) == Val(fs.benchmarks)[i]
\* info.json of the directory is missing, unparsable or no JSON object.
NoInfoObject(item) == item.info.state # "json" \/ item.info.kind # "obj"
HasDefaults(item) ==
    LET def == DictVal(benchmarks, item.name)
    IN  /\ def.name = item.name
        /\ def.description = <<>>
        /\ def.tags = <<>>
        /\ def.sort_dir = Asc
        /\ def.data_file = FALSE

\* C8: discover_benchmarks never raises; it returns a definition for every
\* subdirectory, keyed by the directory name, and the definition has the
\* defaults when info.json is missing, unparsable or no JSON object.
C8_NeverRaisesAndDefaults ==
    /\ pc # "raised"
    /\ pc = "discovered" =>
          \A i \in BenchmarkDirs :
              /\ DictHas(benchmarks, BenchmarkDir(i).name)
              /\ NoInfoObject(BenchmarkDir(i)) => HasDefaults(BenchmarkDir(i))

\* ------------------------------------------- generate_plot, discover_results

\* The path of html/plots/<code>/<machine>/<test>/<commit>/result.png relative
\* to html/, written without its fixed first and last part.
PlotPath(dir, commit) == Str(ResultPath(dir.code, dir.machine, dir.test, commit.name))

\* What plot.py of a benchmark does when generate_plot loads it and calls
\* plot: the file is absent; it defines no plot ("no_plot", AttributeError);
\* plot raises an Exception ("raises"); plot ends the interpreter with
\* sys.exit ("exits", SystemExit is no Exception); plot returns without
\* writing result.png ("returns"); plot writes result.png ("writes").
PlotScript(test_name) ==
    IF DictHas(fs.plot_py, test_name) THEN DictVal(fs.plot_py, test_name) ELSE "absent"

\* result.png exists and is newer than data.h5.
CacheHit(commit) ==
    /\ ~IsNone(commit.png)
    /\ ~IsNone(commit.data_h5)
    /\ Val(commit.png) > Val(commit.data_h5)

\* generate_plot(test_name, commit_dir): the value returned (path), whether
\* an exception leaves the function (raised), result.png afterwards (png) and
\* what happened (call).
generate_plot(dir, commit) ==
    LET script == PlotScript(dir.test)
        result_png == PlotPath(dir, commit)
        out(path, raised, png, call) ==
            [path |-> path, raised |-> raised, png |-> png, call |-> call]
    IN  IF script = "absent" THEN out(Null, FALSE, commit.png, "absent")
        ELSE IF CacheHit(commit) THEN out(result_png, FALSE, commit.png, "cached")
        ELSE IF script \in {"no_plot", "raises"}
        THEN out(Null, FALSE, commit.png, script)
        ELSE IF script = "exits" THEN out(Null, TRUE, commit.png, script)
        ELSE IF script = "writes"
        THEN out(result_png, FALSE, Some(Val(commit.data_h5) + 1), script)
        ELSE IF ~IsNone(commit.png) THEN out(result_png, FALSE, commit.png, script)
        ELSE out(Null, FALSE, commit.png, script)

\* The keys of a sample result file that the inference keeps.
InferredKeys(items) ==
    SelectSeq(DictKeys(items),
              LAMBDA k : k \notin {"code", "machine", "test", "file", "date_obj"})

\* The fallback of discover_results for a test without template keys: the
\* loop over the commit directories from the i-th on, which ends at the first
\* directory that has a result.json.
RECURSIVE InferTemplateKeys(_, _)
InferTemplateKeys(commits, i) ==
    IF i > Len(commits) THEN <<>>
    ELSE IF ~commits[i].is_dir \/ commits[i].result.state = "absent"
    THEN InferTemplateKeys(commits, i + 1)
    ELSE LET sample_data == read_json_file(commits[i].result)
         IN  IF ~IsNone(sample_data) /\ Val(sample_data).kind = "obj"
             THEN InferredKeys(Val(sample_data).items)
             ELSE <<>>

\* The test directories of results/, in the order of the three nested loops.
TestDirs == Val(fs.results)

\* discover_results starts: no results directory, or the loops over it.
DiscoverResults ==
    /\ pc = "discover_results"
    /\ IF IsNone(fs.results)
       THEN pc' = "collected" /\ frame' = frame
       ELSE /\ pc' = "test_dir"
            /\ frame' = [d |-> 1, c |-> 1, template_keys |-> <<>>, data_file |-> FALSE]
    /\ UNCHANGED <<benchmarks, results, results_by_test, deduped_by_test, todo,
                   tables, headers, fs, text, trace>>

\* The head of the loop body for a test directory: the template keys of the
\* test, inferred when none are declared, and its data_file. trace notes the
\* key list that the records of the directory are parsed against.
TestDir ==
    /\ pc = "test_dir"
    /\ frame.d <= Len(TestDirs)
    /\ LET dir == TestDirs[frame.d]
           test_meta == MetaFor(benchmarks, dir.test)
           template_keys == IF test_meta.template_keys # <<>>
                            THEN test_meta.template_keys
                            ELSE InferTemplateKeys(dir.commits, 1)
       IN  /\ frame' = [d |-> frame.d, c |-> 1, template_keys |-> template_keys,
                        data_file |-> test_meta.data_file]
           /\ trace' = Append(trace, [call |-> "template_keys", dir |-> frame.d,
                                      keys |-> template_keys])
    /\ pc' = "commit_dir"
    /\ UNCHANGED <<benchmarks, results, results_by_test, deduped_by_test, todo,
                   tables, headers, fs, text>>

\* One iteration of the loop over the commit directories of a test: parse
\* result.json, call generate_plot when the benchmark has a data file and
\* data.h5 exists, and append the record. An exception that generate_plot
\* does not catch leaves discover_results.
CommitDir ==
    /\ pc = "commit_dir"
    /\ frame.c <= Len(TestDirs[frame.d].commits)
    /\ LET dir == TestDirs[frame.d]
           commit == dir.commits[frame.c]
           path == ResultPath(dir.code, dir.machine, dir.test, commit.name)
           parsed == parse_result_file(path, commit.result, frame.template_keys)
           skipped == \/ ~commit.is_dir
                      \/ commit.result.state = "absent"
                      \/ IsNone(parsed)
           called == frame.data_file /\ ~IsNone(commit.data_h5)
           plot == generate_plot(dir, commit)
           plot_path == IF called THEN plot.path ELSE Null
       IN  IF skipped
           THEN /\ pc' = pc
                /\ frame' = [frame EXCEPT !.c = @ + 1]
                /\ UNCHANGED <<results, fs, trace>>
           ELSE /\ trace' = IF called
                            THEN Append(trace, [file |-> path, call |-> plot.call])
                            ELSE trace
                /\ IF called /\ plot.raised
                   THEN /\ pc' = "raised"
                        /\ UNCHANGED <<results, fs, frame>>
                   ELSE /\ pc' = pc
                        /\ frame' = [frame EXCEPT !.c = @ + 1]
                        /\ results' = Append(results,
                                             MakeRecord(dir.code, dir.machine, dir.test,
                                                        Val(parsed), plot_path))
                        /\ fs' = IF called
                                 THEN [fs EXCEPT !.results =
                                          Some([TestDirs EXCEPT
                                                   ![frame.d].commits[frame.c].png = plot.png])]
                                 ELSE fs
    /\ UNCHANGED <<benchmarks, results_by_test, deduped_by_test, todo, tables,
                   headers, text>>

\* The commit directories of the test are exhausted: the next test directory.
TestDirDone ==
    /\ pc = "commit_dir"
    /\ frame.c > Len(TestDirs[frame.d].commits)
    /\ frame' = [frame EXCEPT !.d = @ + 1]
    /\ pc' = "test_dir"
    /\ UNCHANGED <<benchmarks, results, results_by_test, deduped_by_test, todo,
                   tables, headers, fs, text, trace>>

\* return records
ResultsReturn ==
    /\ pc = "test_dir"
    /\ frame.d > Len(TestDirs)
    /\ pc' = "collected"
    /\ UNCHANGED <<benchmarks, results, results_by_test, deduped_by_test, todo,
                   tables, headers, fs, text, trace, frame>>

CollectNext == DiscoverResults \/ TestDir \/ CommitDir \/ TestDirDone \/ ResultsReturn

\* ------------------------------------------ the inputs of discover_results

\* A commit directory without data.h5.
CommitOf(i, f) ==
    [name |-> Commit(i), is_dir |-> TRUE, result |-> f, data_h5 |-> None, png |-> None]
\* An entry of a test directory that is a plain file.
PlainFile(i) ==
    [name |-> Commit(i), is_dir |-> FALSE, result |-> AbsentFile, data_h5 |-> None,
     png |-> None]
TestDirOf(code, test, commits) ==
    [code |-> code, machine |-> MachineM, test |-> test, commits |-> commits]

\* result.json files: none, text that is no JSON, and two objects with
\* different key lists.
ScoreObject == ObjectFile(<<[k |-> "score", v |-> Num(10)]>>, Some(5))
DatedObject ==
    ObjectFile(<<[k |-> "file", v |-> Str(<<"x">>)], [k |-> "date", v |-> Date1970],
                 [k |-> "score", v |-> Num(1)]>>, Some(5))
ResultFiles == {AbsentFile, GarbledFile(Some(5)), ScoreObject, DatedObject}

RECURSIVE CommitLists(_, _)
\* The lists of n entries, the i-th drawn from Entries[i].
CommitLists(Entries, n) ==
    IF n = 0 THEN {<<>>}
    ELSE {Append(s, x) : s \in CommitLists(Entries, n - 1), x \in Entries[n]}

CollectCommits == [i \in 1..MaxRecs |-> {CommitOf(i, f) : f \in ResultFiles}]
CollectPlaces == <<<<CodeA, T1>>, <<CodeB, T1>>>>
\* The results trees of n test directories, of at most MaxRecs entries each.
RECURSIVE CollectTrees(_)
CollectTrees(n) ==
    IF n = 0 THEN {<<>>}
    ELSE {Append(s, TestDirOf(CollectPlaces[n][1], CollectPlaces[n][2], cs)) :
            s \in CollectTrees(n - 1),
            cs \in UNION {CommitLists(CollectCommits, k) : k \in 0..MaxRecs}}
CollectRegistries == {<<>>, <<[k |-> T1, v |-> Definition(T1, None, Asc, <<"score">>)]>>}

CollectIdle ==
    /\ pc = "discover_results"
    /\ results = <<>>
    /\ results_by_test = <<>>
    /\ deduped_by_test = <<>>
    /\ todo = <<>>
    /\ tables = <<>>
    /\ headers = <<>>
    /\ text = <<>>
    /\ trace = <<>>
    /\ frame = <<>>

\* discover_results on result files of one test under two codes, with and
\* without declared template keys.
CollectInit ==
    /\ benchmarks \in CollectRegistries
    /\ \E o \in {None} \cup {Some(s) : s \in UNION {CollectTrees(n) : n \in 0..Len(CollectPlaces)}} :
          fs = [benchmarks |-> None, results |-> o, plot_py |-> <<>>]
    /\ CollectIdle
SpecCollect == CollectInit /\ [][CollectNext]_vars

\* data.h5 and result.png of a commit directory: no data.h5; data.h5 and no
\* result.png; result.png older than data.h5; result.png newer than data.h5.
PlotStates == {<<None, None>>, <<Some(5), None>>, <<Some(5), Some(4)>>,
               <<Some(5), Some(6)>>}
PlotCommits ==
    [i \in 1..MaxRecs |->
        {PlainFile(i)}
        \cup {[CommitOf(i, f) EXCEPT !.data_h5 = w[1], !.png = w[2]] :
                f \in {GarbledFile(Some(5)), ScoreObject}, w \in PlotStates}]
PlotScripts == {"no_plot", "raises", "exits", "returns", "writes"}
PlotRegistries ==
    {<<[k |-> T1, v |-> [Definition(T1, None, Asc, <<"score">>) EXCEPT !.data_file = b]]>> :
        b \in BOOLEAN}

\* discover_results on the commit directories of one test whose benchmark
\* may declare a data file and may have a plot.py, or without a results
\* directory.
PlotInit ==
    /\ benchmarks \in PlotRegistries
    /\ \E o \in {None} \cup {Some(<<TestDirOf(CodeA, T1, cs)>>) :
                                cs \in UNION {CommitLists(PlotCommits, k) : k \in 0..MaxRecs}} :
       \E py \in {<<>>} \cup {<<[k |-> T1, v |-> s]>> : s \in PlotScripts} :
          fs = [benchmarks |-> None, results |-> o, plot_py |-> py]
    /\ CollectIdle
SpecPlot == PlotInit /\ [][CollectNext]_vars

\* ---------------------------------------- the claims: discover_results

\* The positions (d, c) of the commit directories of the results tree.
CommitDirs ==
    IF IsNone(fs.results) THEN {}
    ELSE {<<d, c>> \in (1..Len(TestDirs)) \X (1..MaxRecs + 1) :
            c <= Len(TestDirs[d].commits) /\ TestDirs[d].commits[c].is_dir}
CommitAt(p) == TestDirs[p[1]].commits[p[2]]
FileOf(p) ==
    Str(ResultPath(TestDirs[p[1]].code, TestDirs[p[1]].machine, TestDirs[p[1]].test,
                   CommitAt(p).name))
\* result.json of the commit directory holds a JSON object.
HoldsObject(commit) == commit.result.state = "json" /\ commit.result.kind = "obj"
\* The collected records of the result file at p.
RecordsOf(p) == {i \in 1..Len(results) : DictVal(results[i], "file") = FileOf(p)}
DeclaresDataFile(p) == MetaFor(benchmarks, TestDirs[p[1]].test).data_file
\* The visualization call for the commit directory fails: the benchmark has
\* a plot.py that is run (no cache hit) and it has no plot function, or plot
\* raises, or plot returns without writing result.png.
PlotFails(p) ==
    /\ DeclaresDataFile(p)
    /\ ~IsNone(CommitAt(p).data_h5)
    /\ ~CacheHit(CommitAt(p))
    /\ PlotScript(TestDirs[p[1]].test) \in {"no_plot", "raises", "exits", "returns"}

\* C9: discover_results does not abort on a failing visualization call; the
\* record of that result file is collected without a plot path, and every
\* result file that holds an object has its record.
C9_PlotFailureContained ==
    /\ pc # "raised"
    /\ pc = "collected" =>
          \A p \in CommitDirs :
              HoldsObject(CommitAt(p)) =>
                  /\ RecordsOf(p) # {}
                  /\ PlotFails(p) =>
                        \A i \in RecordsOf(p) : ~DictHas(results[i], "plot")

\* The key list the claim describes: that of the first commit directory, from
\* the i-th on, whose result.json parses to an object.
RECURSIVE FirstParsedKeys(_, _)
FirstParsedKeys(commits, i) ==
    IF i > Len(commits) THEN <<>>
    ELSE IF commits[i].is_dir /\ HoldsObject(commits[i])
    THEN InferredKeys(commits[i].result.items)
    ELSE FirstParsedKeys(commits, i + 1)

\* C10: for a test without declared template keys, the key list used to
\* parse its records is that of the first result file, in traversal order,
\* that parses to an object; missing and unparsable files are passed over.
C10_KeysOfFirstParsedFile ==
    (pc = "commit_dir" /\ MetaFor(benchmarks, TestDirs[frame.d].test).template_keys = <<>>)
        => frame.template_keys = FirstParsedKeys(TestDirs[frame.d].commits, 1)

\* The test directory at position d yields a record: one of its commit
\* directories holds a result.json that is a JSON object.
YieldsRecords(d) ==
    \E c \in 1..Len(TestDirs[d].commits) :
        TestDirs[d].commits[c].is_dir /\ HoldsObject(TestDirs[d].commits[c])
\* The key lists that the records of the test directories visited before
\* the current one, of the test test_name, were parsed against.
KeyListsBefore(test_name) ==
    {trace[k].keys : k \in {j \in 1..Len(trace) :
                              /\ trace[j].call = "template_keys"
                              /\ trace[j].dir < frame.d
                              /\ TestDirs[trace[j].dir].test = test_name
                              /\ YieldsRecords(trace[j].dir)}}

\* C11: the records of one benchmark are all parsed against the same ordered
\* key list, declared or inferred, under whichever code or machine directory
\* they are found.
C11_OneKeyListPerBenchmark ==
    (pc = "commit_dir" /\ YieldsRecords(frame.d))
        => \A keys \in KeyListsBefore(TestDirs[frame.d].test) :
              keys = frame.template_keys

\* ------------------------------- result files that name bookkeeping keys

\* result.json files whose objects have keys that discover_results also
\* sets itself, and one whose stat fails.
StampedObject ==
    ObjectFile(<<[k |-> "mtime_ts", v |-> Num(99)], [k |-> "score", v |-> Num(1)]>>,
               Some(5))
CodedObject ==
    ObjectFile(<<[k |-> "code", v |-> Str(<<"z">>)], [k |-> "score", v |-> Num(1)]>>,
               Some(5))
UnstattedObject == ObjectFile(<<[k |-> "score", v |-> Num(10)]>>, None)
BookCommits ==
    [i \in 1..MaxRecs |->
        {CommitOf(i, f) : f \in {GarbledFile(Some(5)), ScoreObject, StampedObject,
                                 CodedObject, UnstattedObject}}]
BookRegistries ==
    {<<>>} \cup {<<[k |-> T1, v |-> Definition(T1, None, Asc, keys)]>> :
                    keys \in {<<"score">>, <<"code", "score">>}}

\* discover_results on the commit directories of one test, with no template
\* keys, with the key score, or with the keys code and score.
BookInit ==
    /\ benchmarks \in BookRegistries
    /\ \E o \in {None} \cup {Some(<<TestDirOf(CodeA, T1, cs)>>) :
                                cs \in UNION {CommitLists(BookCommits, k) : k \in 0..MaxRecs}} :
          fs = [benchmarks |-> None, results |-> o, plot_py |-> <<>>]
    /\ CollectIdle
SpecBook == BookInit /\ [][CollectNext]_vars

\* The position of the commit directory that the i-th collected record of
\* the only test directory comes from: the i-th that holds an object.
SourceOf(i) ==
    CHOOSE c \in 1..Len(TestDirs[1].commits) :
        /\ HoldsObject(TestDirs[1].commits[c])
        /\ Cardinality({b \in 1..(c - 1) : HoldsObject(TestDirs[1].commits[b])}) = i - 1
MtimeOf(f) == IF IsNone(f.mtime) THEN Null ELSE Num(Val(f.mtime))

\* C12: mtime_ts of a record is the modification time of its result file
\* (null when stat fails) and code, machine and test are the names of the
\* directories the file lies under, whatever the file holds and whatever the
\* template keys are.
C12_BookkeepingFromFilesystem ==
    \A i \in 1..Len(results) :
        LET dir == TestDirs[1]
            f == dir.commits[SourceOf(i)].result
        IN  /\ PyGet(results[i], "mtime_ts") = MtimeOf(f)
            /\ PyGet(results[i], "code") = Str(dir.code)
            /\ PyGet(results[i], "machine") = Str(dir.machine)
            /\ PyGet(results[i], "test") = Str(dir.test)

\* ------------------------------------------------ tables with a template

\* Result files of test t1 with and without a date, with and without a
\* plot, and registries that declare the keys in two ways, with and without
\* a data file and an initial sort.
ColumnCodes == <<CodeA, CodeB>>
ColumnDates == <<Null, Date1970>>
ColumnPlots == <<Null, Str(<<"p">>)>>
ColumnKeys == {<<"score">>, <<"score", "date">>}
\* The record of the i-th result file, of code c, with date w and plot p,
\* parsed against keys.
ColumnRecord ==
    [i \in 1..MaxRecs, c \in 1..Len(ColumnCodes), w \in 1..Len(ColumnDates),
     p \in 1..Len(ColumnPlots), keys \in ColumnKeys |->
        MakeRecord(ColumnCodes[c], MachineM, T1,
                   Val(parse_result_file(
                           ResultPath(ColumnCodes[c], MachineM, T1, Commit(i)),
                           ObjectFile(<<[k |-> "score", v |-> Num(i)]>>
                                      \o (IF ColumnDates[w] = Null THEN <<>>
                                          ELSE <<[k |-> "date", v |-> ColumnDates[w]]>>),
                                      Some(5)),
                           keys)),
                   ColumnPlots[p])]
ColumnInputs == (1..Len(ColumnCodes)) \X (1..Len(ColumnDates)) \X (1..Len(ColumnPlots))
ColumnRegistries ==
    {<<[k |-> T1, v |-> [Definition(T1, sort_by, Asc, keys) EXCEPT !.data_file = b]]>> :
        sort_by \in {None, Some("score")}, keys \in ColumnKeys, b \in BOOLEAN}

\* generate_html on records of one test with declared template keys.
ColumnInit ==
    /\ benchmarks \in ColumnRegistries
    /\ \E n \in 0..MaxRecs : \E inp \in [1..n -> ColumnInputs] :
          results = [i \in 1..n |-> ColumnRecord[i, inp[i][1], inp[i][2], inp[i][3],
                                                 benchmarks[1].v.template_keys]]
    /\ ReduceInit
SpecColumns == ColumnInit /\ [][Next]_vars

\* What a cell or a header cell holds.
Holds(cell) == <<cell.kind, cell.key>>
\* The columns the claim describes for a benchmark: rank, code, machine, one
\* per template key in the declared order, and plot with a data file.
DeclaredColumns(meta) ==
    <<<<"rank", "">>, <<"code", "">>, <<"machine", "">>>>
    \o [i \in 1..Len(meta.template_keys) |-> <<"field", meta.template_keys[i]>>]
    \o (IF meta.data_file THEN <<<<"plot", "">>>> ELSE <<>>)

\* C13: the table of a benchmark with declared template keys has the columns
\* rank, code, machine, one per template key in the declared order, and
\* plot only with a data file; the cells of every row are in that order.
C13_ColumnsFollowTemplate ==
    pc = "done" =>
        \A p \in 1..Len(tables) :
            LET t == tables[p].k
                meta == MetaFor(benchmarks, t.s)
                head == DictVal(headers, t).cells
                rows == tables[p].v
            IN  meta.template_keys # <<>> =>
                  /\ [i \in 1..Len(head) |-> Holds(head[i])] = DeclaredColumns(meta)
                  /\ \A q \in 1..Len(rows) :
                        [i \in 1..Len(rows[q].cells) |-> Holds(rows[q].cells[i])]
                            = DeclaredColumns(meta)

\* A table of two rows with the columns score and date and a plot column,
\* of records that have more keys than these.
C13_Witness ==
    /\ pc = "done"
    /\ Str(T1) \in Tables
    /\ benchmarks[1].v.template_keys = <<"score", "date">>
    /\ benchmarks[1].v.data_file
    /\ Len(DictVal(tables, Str(T1))) = 2
    /\ Len(DictVal(headers, Str(T1)).cells) = 6
    /\ \A q \in 1..2 :
          /\ Len(DictVal(tables, Str(T1))[q].cells) = 6
          /\ DictHas(Rec(DictVal(tables, Str(T1))[q].rec), "date_obj")
          /\ DictVal(tables, Str(T1))[q].cells[5].text
                = <<"1", "9", "7", "0", "-", "0", "1", "-", "0", "2">>

\* ------------------------------------------------------------------- main

\* main passes the collected records on to generate_html.
GenerateHtml ==
    /\ pc = "collected"
    /\ pc' = "generate_html"
    /\ UNCHANGED <<benchmarks, results, results_by_test, deduped_by_test, todo,
                   tables, headers, fs, text, trace, frame>>

\* The document that main writes, as far as it depends on the results: for
\* every section the table attributes, the header and the rows.
Document ==
    [p \in 1..Len(tables) |->
        [test |-> tables[p].k,
         head |-> DictVal(headers, tables[p].k),
         rows |-> [q \in 1..Len(tables[p].v) |->
                     [best |-> tables[p].v[q].best, cells |-> tables[p].v[q].cells]]]]

\* The orders in which iterdir may yield the entries s of a directory.
Permuted(s) ==
    {[i \in 1..Len(s) |-> s[f[i]]] :
        f \in {g \in [1..Len(s) -> 1..Len(s)] :
                 \A i, j \in 1..Len(s) : g[i] = g[j] => i = j}}
\* The test directories dirs, the commit directories of each in any order.
RECURSIVE Reordered(_)
Reordered(dirs) ==
    IF dirs = <<>> THEN {<<>>}
    ELSE {<<[Head(dirs) EXCEPT !.commits = cs]>> \o rest :
            cs \in Permuted(Head(dirs).commits), rest \in Reordered(Tail(dirs))}

\* The pipeline is run a second time on the same trees; trace keeps the
\* document of the first run. The directories may yield their entries in
\* another order.
RunAgain ==
    /\ pc = "done"
    /\ \A k \in 1..Len(trace) : trace[k].call # "main"
    /\ trace' = <<[call |-> "main", html |-> Document]>>
    /\ IF IsNone(fs.results) THEN fs' = fs
       ELSE \E ds \in Permuted(TestDirs) : \E tree \in Reordered(ds) :
               fs' = [fs EXCEPT !.results = Some(tree)]
    /\ pc' = "discover_results"
    /\ results' = <<>>
    /\ results_by_test' = <<>>
    /\ deduped_by_test' = <<>>
    /\ todo' = <<>>
    /\ tables' = <<>>
    /\ headers' = <<>>
    /\ frame' = <<>>
    /\ UNCHANGED <<benchmarks, text>>

RunsNext == CollectNext \/ GenerateHtml \/ ReduceNext \/ RunAgain

\* result.json files with a score, one of them dated.
FirstObject ==
    ObjectFile(<<[k |-> "score", v |-> Num(1)], [k |-> "date", v |-> Date1970]>>, Some(5))
SecondObject == ObjectFile(<<[k |-> "score", v |-> Num(2)]>>, Some(5))
RunCommits == [i \in 1..MaxRecs |-> {CommitOf(i, f) : f \in {FirstObject, SecondObject}}]
\* The results trees: no test directory, that of test t1 under code a, or
\* also that under code b with at most one commit directory.
RunTrees ==
    LET dirs_a == {TestDirOf(CodeA, T1, cs) :
                     cs \in UNION {CommitLists(RunCommits, k) : k \in 0..MaxRecs}}
        dirs_b == {TestDirOf(CodeB, T1, cs) :
                     cs \in UNION {CommitLists(RunCommits, k) : k \in 0..1}}
    IN  {<<>>} \cup {<<a>> : a \in dirs_a} \cup {<<a, b>> : a \in dirs_a, b \in dirs_b}
RunRegistries ==
    {<<>>} \cup {<<[k |-> T1, v |-> Definition(T1, sort_by, Asc, <<"score">>)]>> :
                    sort_by \in {None, Some("score")}}

\* Two runs of main on the result files of one test under two codes.
RunsInit ==
    /\ benchmarks \in RunRegistries
    /\ \E o \in {None} \cup {Some(s) : s \in RunTrees} :
          fs = [benchmarks |-> None, results |-> o, plot_py |-> <<>>]
    /\ CollectIdle
SpecRuns == RunsInit /\ [][RunsNext]_vars

\* The second run is over.
RanTwice == pc = "done" /\ trace # <<>> /\ trace[1].call = "main"

\* C14: two runs over the same benchmarks tree and results tree write the
\* same document: the same sections, columns, rows and row order, in
\* whichever order the directories yield their entries.
C14_SameDocumentTwice == RanTwice => Document = trace[1].html

\* ------------------------------------------------ the page in the browser

\* The value of an attribute or the text of a cell as the script reads it:
\* the browser has resolved the entities of the document.
DomText(s) == Shown(s, 1)
\* getVal of sortTable: the data-sort attribute of the cell in column col, or
\* its text when there is no attribute or an empty one.
getVal(tr, col) ==
    LET cell == tr.cells[col + 1]
    IN  IF ~IsNone(cell.sort) /\ DomText(Val(cell.sort)) # <<>>
        THEN DomText(Val(cell.sort))
        ELSE DomText(cell.text)

\* The longest prefix of s made of digits.
RECURSIVE LeadingDigits(_)
LeadingDigits(s) ==
    IF s = <<>> \/ ~IsDigit(Head(s)) THEN <<>>
    ELSE <<Head(s)>> \o LeadingDigits(Tail(s))
\* parseFloat(s): the number that the longest numeric prefix of s denotes,
\* None for NaN. The texts of the model have no decimal point or exponent.
parseFloat(s) ==
    LET neg == s # <<>> /\ Head(s) = "-"
        digits == LeadingDigits(IF neg THEN Tail(s) ELSE s)
    IN  IF digits = <<>> THEN None
        ELSE Some(IF neg THEN -DecimalValue(digits) ELSE DecimalValue(digits))
\* va.localeCompare(vb). The cell texts of the model are made of digits and
\* lower-case letters, which every locale orders as their code points.
localeCompare(va, vb) == IF va = vb THEN 0 ELSE IF StrLt(va, vb) THEN -1 ELSE 1
\* The comparison function that sortTable hands to rows.sort.
Compare(a, b, col, asc) ==
    LET va == getVal(a, col)
        vb == getVal(b, col)
        na == parseFloat(va)
        nb == parseFloat(vb)
        bothNum == ~IsNone(na) /\ ~IsNone(nb)
        cmp == IF bothNum THEN Val(na) - Val(nb) ELSE localeCompare(va, vb)
    IN  IF asc THEN cmp ELSE -cmp

\* Array.prototype.sort, which is stable: x inserted into the sorted s.
RECURSIVE InsertRow(_, _, _, _)
InsertRow(s, x, col, asc) ==
    IF s = <<>> THEN <<x>>
    ELSE IF Compare(x, Head(s), col, asc) < 0 THEN <<x>> \o s
    ELSE <<Head(s)>> \o InsertRow(Tail(s), x, col, asc)
RECURSIVE SortRows(_, _, _)
SortRows(rows, col, asc) ==
    IF rows = <<>> THEN <<>>
    ELSE InsertRow(SortRows(SubSeq(rows, 1, Len(rows) - 1), col, asc),
                   rows[Len(rows)], col, asc)

\* The loop that numbers the rows from the i-th on, counting hidden rows too.
RECURSIVE CountEveryRow(_, _, _)
CountEveryRow(rows, i, rank) ==
    IF i > Len(rows) THEN rows
    ELSE IF rows[i].hidden THEN CountEveryRow(rows, i + 1, rank + 1)
    ELSE CountEveryRow([rows EXCEPT ![i].rank = rank, ![i].best = (rank = 1),
                                    ![i].cells[1] = Cell("rank", "", Some(NatStr(rank)),
                                                         NatStr(rank))],
                       i + 1, rank + 1)
\* The loop that updates ranks and the best mark from the i-th row on: a
\* hidden row is passed over as it is, a displayed row gets the next rank in
\* its first cell and is best if that rank is 1.
RECURSIVE UpdateRanks(_, _, _)
UpdateRanks(rows, i, rank) ==
    IF i > Len(rows) THEN rows
    ELSE IF rows[i].hidden THEN UpdateRanks(rows, i + 1, rank)
    ELSE UpdateRanks([rows EXCEPT ![i].rank = rank, ![i].best = (rank = 1),
                                  ![i].cells[1] = Cell("rank", "", Some(NatStr(rank)),
                                                       NatStr(rank))],
                     i + 1, rank + 1)

\* s.indexOf(q) >= 0
Contains(s, q) ==
    \E i \in 0..(Len(s) - Len(q)) : SubSeq(s, i + 1, i + Len(q)) = q
RECURSIVE Concat(_)
Concat(ss) == IF ss = <<>> THEN <<>> ELSE Head(ss) \o Concat(Tail(ss))
\* The text that filterRows searches for a row: its data-test, data-code and
\* data-machine attributes, which hold what the data-sort attributes of the
\* code and machine cells hold, and the text of its cells.
RowText(test_name, tr) ==
    Lower(DomText(html_escape(test_name)) \o <<" ">> \o DomText(Val(tr.cells[2].sort))
          \o <<" ">> \o DomText(Val(tr.cells[3].sort)) \o <<" ">>
          \o Concat([i \in 1..Len(tr.cells) |-> DomText(tr.cells[i].text)]))

\* filterRows(q): display the rows whose text contains q, then update the
\* ranks of every table.
filterRows(q) ==
    [p \in 1..Len(tables) |->
        [k |-> tables[p].k,
         v |-> UpdateRanks([i \in 1..Len(tables[p].v) |->
                              [tables[p].v[i] EXCEPT
                                 !.hidden = ~Contains(RowText(tables[p].k.s, tables[p].v[i]),
                                                      Lower(q))]],
                           1, 1)]]

\* sortTable(tableId, col, asc) on the rows of the table: the displayed rows
\* are sorted and appended to the body, behind the hidden rows, and the
\* ranks are updated.
sortTable(rows, col, asc) ==
    LET displayed == SelectSeq(rows, LAMBDA r : ~r.hidden)
        hidden == SelectSeq(rows, LAMBDA r : r.hidden)
    IN  UpdateRanks(hidden \o SortRows(displayed, col, asc), 1, 1)

\* The user types q into the search field.
FilterRows ==
    /\ pc = "done"
    /\ \E q \in {<<>>, <<"a">>, <<"2">>} : tables' = filterRows(q)
    /\ UNCHANGED <<pc, benchmarks, results, results_by_test, deduped_by_test, todo,
                   headers, fs, text, trace, frame>>

\* The user clicks a sortable header cell: onHeaderClick(tableId, col, th).
OnHeaderClick ==
    /\ pc = "done"
    /\ \E p \in 1..Len(tables) :
          LET t == tables[p].k
              head == DictVal(headers, t)
          IN  \E h \in 1..Len(head.cells) :
                 /\ ~IsNone(head.cells[h].col)
                 /\ LET col == Val(head.cells[h].col)
                        lastAsc == head.sort_asc = Some(TRUE)
                        asc == IF head.sort_col = Some(col) THEN ~lastAsc ELSE TRUE
                    IN  /\ tables' = DictSet(tables, t, sortTable(tables[p].v, col, asc))
                        /\ headers' =
                              DictSet(headers, t,
                                      [sort_col |-> Some(col), sort_asc |-> Some(asc),
                                       cells |-> [i \in 1..Len(head.cells) |->
                                                    [head.cells[i] EXCEPT
                                                       !.cls = IF i # h THEN ""
                                                               ELSE IF asc THEN "sort-asc"
                                                               ELSE "sort-desc"]]])
    /\ UNCHANGED <<pc, benchmarks, results, results_by_test, deduped_by_test, todo,
                   fs, text, trace, frame>>

PageNext == ReduceNext \/ FilterRows \/ OnHeaderClick

\* The code of the i-th result file.
PageCodes == <<CodeA, CodeB, CodeC, <<"d">>, <<"e">>>>
PageScores == <<Num(2), Num(10)>>
PageTests == <<T1, T2>>
\* The record of the i-th result file, of the t-th test with the v-th score.
PageRecord ==
    [i \in 1..MaxRecs, t \in 1..Len(PageTests), v \in 1..Len(PageScores) |->
        RecordOf(i, PageCodes[i], PageTests[t], <<[k |-> "score", v |-> PageScores[v]]>>,
                 Some(5), SortKeys)]
PageRegistries ==
    {<<[k |-> T1, v |-> Definition(T1, sort_by, Asc, SortKeys)],
       [k |-> T2, v |-> Definition(T2, None, Asc, SortKeys)]>> :
        sort_by \in {None, Some("score")}}

\* generate_html on records under different codes, all of one test or the
\* last one of another test, and then the page in the browser.
PageInit ==
    /\ benchmarks \in PageRegistries
    /\ \E n \in 0..MaxRecs : \E inp \in [1..n -> 1..Len(PageScores)] :
       \E last \in 1..Len(PageTests) :
          results = [i \in 1..n |-> PageRecord[i, IF i = n THEN last ELSE 1, inp[i]]]
    /\ ReduceInit
SpecPage == PageInit /\ [][PageNext]_vars

\* The rows of a table that the browser displays, in their order.
Displayed(rows) == SelectSeq(rows, LAMBDA r : ~r.hidden)

\* C15: once the page is rendered, and after every filterRows and every
\* onHeaderClick, the displayed rows of every table carry the ranks 1..k in
\* their order, in the rank cell's text and its data-sort attribute, and
\* among them the first one and no other is marked best.
C15_RanksFollowDisplay ==
    pc = "done" =>
        \A p \in 1..Len(tables) :
            LET rows == Displayed(tables[p].v)
            IN  \A i \in 1..Len(rows) :
                   /\ rows[i].rank = i
                   /\ DomText(rows[i].cells[1].text) = NatStr(i)
                   /\ rows[i].cells[1].sort = Some(NatStr(i))
                   /\ rows[i].best <=> (i = 1)
\* A table sorted by code, descending, by two clicks, while a filter hides
\* one of its rows and displays two.
C15_Witness ==
    /\ pc = "done"
    /\ \E p \in 1..Len(tables) :
          /\ \E i \in 1..Len(tables[p].v) : tables[p].v[i].hidden
          /\ Len(Displayed(tables[p].v)) >= 2
          /\ DictVal(headers, tables[p].k).sort_col = Some(1)
          /\ DictVal(headers, tables[p].k).sort_asc = Some(FALSE)

\* ----------------------------------------------- the claims: the sections

\* The tests of the sections of the document, in the order of the document.
SectionNames == [p \in 1..Len(tables) |-> tables[p].k.s]
\* The benchmarks of the registry, in ascending order of their names.
RegistryNames ==
    LET names == SortedNames([p \in 1..Len(benchmarks) |-> Str(benchmarks[p].k)])
    IN  [p \in 1..Len(names) |-> names[p].s]

\* C16: the document has one section, heading and table, for every benchmark
\* of the registry and no other, in ascending order of the benchmark names.
C16_OneSectionPerBenchmark ==
    pc = "done" => SectionNames = RegistryNames

\* The visualization call noted for the commit directory at p left an image
\* that is up to date: a cache hit, or plot wrote result.png.
ImageUpToDate(p) ==
    \E e \in 1..Len(trace) :
        /\ trace[e].call \in {"cached", "writes"}
        /\ Str(trace[e].file) = FileOf(p)

\* C17: a record carries a plot path only if its benchmark declares a data
\* file and result.png is up to date for data.h5: it was newer already and
\* plot was not called, or plot was called in this run and wrote it. A
\* result.png older than data.h5 that this run did not rewrite is never
\* returned.
C17_PlotPathOnlyIfUpToDate ==
    pc = "collected" =>
        \A p \in CommitDirs : \A i \in RecordsOf(p) :
            DictHas(results[i], "plot") =>
                /\ DeclaresDataFile(p)
                /\ ImageUpToDate(p)
                /\ Val(CommitAt(p).png) > Val(CommitAt(p).data_h5)

\* C18: once the page is rendered, and after every filterRows and every
\* onHeaderClick, a table that records a sort column and a direction has its
\* displayed rows in the order of that column in that direction, as
\* sortTable compares them; so have the rows that a filter hid during a sort,
\* once the filter is cleared.
C18_DisplayedRowsSorted ==
    pc = "done" =>
        \A p \in 1..Len(tables) :
            LET head == DictVal(headers, tables[p].k)
                rows == Displayed(tables[p].v)
            IN  ~IsNone(head.sort_col) =>
                    \A i \in 1..(Len(rows) - 1) :
                        Compare(rows[i], rows[i + 1], Val(head.sort_col),
                                head.sort_asc = Some(TRUE)) <= 0

=============================================================================
